---- MODULE Spec2Model ----
(***************************************************************************)
(* Content approval / scheduling workflow of ai-content-workflow.          *)
(* The relational store is modelled by its tables; every handler is one    *)
(* atomic action (single-threaded-per-request processing).                 *)
(***************************************************************************)
EXTENDS Integers, Sequences, FiniteSets, TLC

(* ---------------------------- bounds ----------------------------------- *)
\* rows in usersTable (ids 1..NumUsers); id NumUsers+1 references no user
NumUsers == 2
\* most rows contentTable may hold; id MaxContent+1 is never allocated
MaxContent == 1
\* the clock runs over 0..MaxTime
MaxTime == 1
\* most templates workflowTemplatesTable may hold
MaxTemplates == 2
\* longest step list handed to createWorkflowTemplate
MaxSteps == 2
\* most content rows a listing query starts from
MaxListed == 2
\* most rows contentWorkflowInstancesTable may hold
MaxInstances == 2
MaxInFlight == 2

(* ---------------------------- values ----------------------------------- *)
\* a nullable column holds Null or Some(v)
Null == <<>>
Some(v) == <<v>>

contentStatusEnum ==
  {"draft", "pending_approval", "approved", "rejected", "scheduled", "published"}
socialMediaPlatformEnum == {"instagram", "facebook", "twitter", "linkedin"}
contentTypeEnum == {"post", "story", "reel", "tweet"}
workflowStepTypeEnum == {"generation", "review", "approval", "scheduling"}

usersTable == 1 .. NumUsers

\* outcomes of a handler
Ok == <<"ok">>
ContentNotFound_Uncited(id) == <<"Content not found">>
ContentNotFound(id) == <<"Content with id ${id} not found", id>>
UserNotExist(id) == <<"User with id ${id} does not exist", id>>
PastDate == <<"Cannot schedule content for a past date or current time">>
OnlyApproved == <<"Only approved content can be scheduled">>
OnlyScheduled == <<"Only scheduled content can be unscheduled">>
ForeignKeyViolation(col) == <<"violates foreign key constraint", col>>
UserIDNotExist(id) == <<"User with ID ${id} does not exist", id>>
StepOrderError == <<"Step orders must be consecutive starting from 1">>
AssigneeNotExist(id) == <<"Assignee with ID ${id} does not exist", id>>
EmptyValues == <<"values() must be called with at least one value">>

VARIABLES
  contentTable,            \* Seq of rows; a row's id is its index (serial primary key)
  workflowTemplatesTable,  \* Seq of rows, id = index
  workflowStepsTable,      \* Seq of rows, id = index
  contentWorkflowInstancesTable,  \* Seq of rows, id = index; no handler writes it
  now,                     \* the wall clock read by new Date() / defaultNow()
  last,                    \* the latest request: handler, input, outcome, tables before it
  prev,                    \* the request before the latest one (recorded by SpecRoundTrip only)
  inflight                 \* Seq of requests that have read their row and not yet written

vars == <<contentTable, workflowTemplatesTable, workflowStepsTable,
          contentWorkflowInstancesTable, now, last, prev, inflight>>
contentVars == <<contentTable>>
templateVars == <<workflowTemplatesTable, workflowStepsTable>>
instanceVars == <<contentWorkflowInstancesTable>>

ContentIds == 1 .. Len(contentTable)

\* the clock may advance between two new Date() reads of one handler
LaterReads == {t \in now .. now + 1 : t <= MaxTime}

\* UPDATE ... SET updateData: columns named by updateData are overwritten
SqlSet(row, updateData) ==
  [f \in DOMAIN row |-> IF f \in DOMAIN updateData THEN updateData[f] ELSE row[f]]

\* the tables as a request finds them
Db ==
  [content |-> contentTable,
   templates |-> workflowTemplatesTable,
   steps |-> workflowStepsTable,
   instances |-> contentWorkflowInstancesTable]

\* a request: the handler called, the id it addresses, its input, the clock when it
\* arrived, its outcome (Ok or the error thrown), the value it returned (Null when it
\* threw) and the tables it found
Request(op, id, input, result, returned) ==
  [op |-> op, id |-> id, input |-> input, at |-> now, result |-> result,
   returned |-> returned, before |-> Db]

NoRequest == [op |-> "none", id |-> 0, input |-> <<>>, at |-> 0, result |-> Ok,
              returned |-> <<>>,
              before |-> [content |-> <<>>, templates |-> <<>>, steps |-> <<>>,
                          instances |-> <<>>]]

\* a row as a select or a returning() hands it back: its columns and its id
WithId(id, row) == [f \in DOMAIN row \cup {"id"} |-> IF f = "id" THEN id ELSE row[f]]

\* the content row a request found under the id it addresses
RowBefore(r) == r.before.content[r.id]

(* ---------------------------- createContent ---------------------------- *)
\* marking content created with a date as scheduled
CreateContentValues_ScheduledStatus(input) ==
  [user_id |-> input.user_id,
   title |-> input.title,
   caption |-> input.caption,
   hashtags |-> IF "hashtags" \in DOMAIN input THEN input.hashtags ELSE Null,
   platform |-> input.platform,
   content_type |-> input.content_type,
   status |-> IF "scheduled_at" \in DOMAIN input /\ input.scheduled_at # Null
              THEN "scheduled" ELSE "draft",
   ai_generated |-> input.ai_generated,
   scheduled_at |-> IF "scheduled_at" \in DOMAIN input THEN input.scheduled_at ELSE Null,
   approved_at |-> Null,
   approved_by |-> Null,
   rejected_reason |-> Null,
   created_at |-> now,
   updated_at |-> now]

\* the values createContent inserts; created_at and updated_at default to now
CreateContentValues(input) ==
  [user_id |-> input.user_id,
   title |-> input.title,
   caption |-> input.caption,
   hashtags |-> IF "hashtags" \in DOMAIN input THEN input.hashtags ELSE Null,
   platform |-> input.platform,
   content_type |-> input.content_type,
   status |-> "draft",
   ai_generated |-> input.ai_generated,
   scheduled_at |-> IF "scheduled_at" \in DOMAIN input THEN input.scheduled_at ELSE Null,
   approved_at |-> Null,
   approved_by |-> Null,
   rejected_reason |-> Null,
   created_at |-> now,
   updated_at |-> now]

CreateContent(input) ==
  IF input.user_id \notin usersTable
  THEN /\ last' = Request("createContent", 0, input, UserNotExist(input.user_id), Null)
       /\ UNCHANGED <<contentTable, now, templateVars, instanceVars>>
  ELSE /\ Len(contentTable) < MaxContent
       /\ contentTable' = Append(contentTable, CreateContentValues(input))
       /\ last' = Request("createContent", Len(contentTable) + 1, input, Ok,
                          WithId(Len(contentTable) + 1, contentTable'[Len(contentTable) + 1]))
       /\ UNCHANGED <<now, templateVars, instanceVars>>

(* ---------------------------- generateContent -------------------------- *)
UserNotFound(id) == <<"User with id ${id} not found", id>>

platformSpecificContent ==
  [instagram |-> [maxCaptionLength |-> 2200],
   facebook |-> [maxCaptionLength |-> 63206],
   twitter |-> [maxCaptionLength |-> 280],
   linkedin |-> [maxCaptionLength |-> 3000]]

\* s.charAt(0).toUpperCase() + s.slice(1) over the platforms and content types
Capitalized ==
  [instagram |-> "Instagram", facebook |-> "Facebook", twitter |-> "Twitter",
   linkedin |-> "Linkedin", post |-> "Post", story |-> "Story", reel |-> "Reel",
   tweet |-> "Tweet"]

HasTone(input) == "tone" \in DOMAIN input

\* the caption before truncation (the emoji that ends the funny caption is written
\* as the two code units it takes)
TonedCaption(input) ==
  IF ~HasTone(input) THEN "Generated content for: " \o input.prompt
  ELSE CASE input.tone = "professional" ->
              "Professional content addressing: " \o input.prompt
              \o ". This content maintains a business-appropriate tone while engaging the audience."
         [] input.tone = "casual" ->
              "Hey there! Let's talk about " \o input.prompt
              \o ". This is a casual take on the topic that feels approachable and friendly."
         [] input.tone = "funny" ->
              "You know what's interesting about " \o input.prompt
              \o "? Here's a fun perspective that'll make you smile! :D"
         [] input.tone = "inspirational" ->
              input.prompt
              \o " - let this inspire your journey today. Every step forward matters, and this content aims to motivate and uplift."
         [] input.tone = "promotional" ->
              "Don't miss out on " \o input.prompt
              \o "! This amazing opportunity is perfect for you. Take action today!"
         [] OTHER ->
              "Engaging content about " \o input.prompt
              \o ". Crafted to resonate with your audience and drive meaningful interaction."

TypeHashtags ==
  [post |-> " #post #engagement", story |-> " #story #behind-the-scenes",
   reel |-> " #reel #video #trending", tweet |-> " #tweet #discussion"]

ToneHashtags(input) ==
  IF ~HasTone(input) THEN ""
  ELSE CASE input.tone = "professional" -> " #business #professional"
         [] input.tone = "inspirational" -> " #motivation #inspiration"
         [] input.tone = "funny" -> " #humor #fun"
         [] input.tone = "promotional" -> " #offer #promotion"
         [] OTHER -> ""

\* the mock generation: title, caption and hashtags from the input
generateAIContent(input) ==
  LET maxCaptionLength == platformSpecificContent[input.platform].maxCaptionLength
      caption == TonedCaption(input)
  IN  [title |-> Capitalized[input.content_type] \o " for " \o Capitalized[input.platform],
       caption |-> IF Len(caption) > maxCaptionLength
                   THEN SubSeq(caption, 1, maxCaptionLength - 3) \o "..."
                   ELSE caption,
       hashtags |-> IF input.include_hashtags
                    THEN Some("#content #social #" \o input.platform
                              \o TypeHashtags[input.content_type]
                              \o ToneHashtags(input) \o " #ai #generated")
                    ELSE Null]

GenerateContent(input) ==
  IF input.user_id \notin usersTable
  THEN /\ last' = Request("generateContent", 0, input, UserNotFound(input.user_id), Null)
       /\ UNCHANGED <<contentTable, now, templateVars, instanceVars>>
  ELSE LET generatedContent == generateAIContent(input) IN
       /\ Len(contentTable) < MaxContent
       /\ contentTable' = Append(contentTable,
            [user_id |-> input.user_id,
             title |-> generatedContent.title,
             caption |-> generatedContent.caption,
             hashtags |-> generatedContent.hashtags,
             platform |-> input.platform,
             content_type |-> input.content_type,
             status |-> "draft",
             ai_generated |-> TRUE,
             scheduled_at |-> Null,
             approved_at |-> Null,
             approved_by |-> Null,
             rejected_reason |-> Null,
             created_at |-> now,
             updated_at |-> now])
       /\ last' = Request("generateContent", Len(contentTable) + 1, input, Ok,
                          WithId(Len(contentTable) + 1, contentTable'[Len(contentTable) + 1]))
       /\ UNCHANGED <<now, templateVars, instanceVars>>

(* ---------------------------- approveContent --------------------------- *)
\* ?? in place of ||: an empty reason is kept
ReasonOrDefault_Nullish(input) ==
  IF "rejection_reason" \in DOMAIN input
  THEN input.rejection_reason
  ELSE "No reason provided"

\* input.rejection_reason || 'No reason provided'
ReasonOrDefault(input) ==
  IF "rejection_reason" \in DOMAIN input /\ input.rejection_reason # ""
  THEN input.rejection_reason
  ELSE "No reason provided"

\* approving without clearing an earlier rejection reason
ApproveUpdateData_StaleReason(input, updatedAt, approvedAt) ==
  IF input.approved
  THEN [updated_at |-> updatedAt,
        status |-> "approved",
        approved_by |-> Some(input.approved_by),
        approved_at |-> Some(approvedAt)]
  ELSE [updated_at |-> updatedAt,
        status |-> "rejected",
        rejected_reason |-> Some(ReasonOrDefault(input)),
        approved_by |-> Null,
        approved_at |-> Null]

\* rejecting without clearing approved_at
ApproveUpdateData_KeepsApprovedAt(input, updatedAt, approvedAt) ==
  IF input.approved
  THEN [updated_at |-> updatedAt,
        status |-> "approved",
        approved_by |-> Some(input.approved_by),
        approved_at |-> Some(approvedAt),
        rejected_reason |-> Null]
  ELSE [updated_at |-> updatedAt,
        status |-> "rejected",
        rejected_reason |-> Some(ReasonOrDefault(input)),
        approved_by |-> Null]

ApproveUpdateData(input, updatedAt, approvedAt) ==
  IF input.approved
  THEN [updated_at |-> updatedAt,
        status |-> "approved",
        approved_by |-> Some(input.approved_by),
        approved_at |-> Some(approvedAt),
        rejected_reason |-> Null]
  ELSE [updated_at |-> updatedAt,
        status |-> "rejected",
        rejected_reason |-> Some(ReasonOrDefault(input)),
        approved_by |-> Null,
        approved_at |-> Null]

ApproveContent(input) ==
  LET id == input.content_id IN
  /\ UNCHANGED <<templateVars, instanceVars>>
  /\ IF id \notin ContentIds
     THEN /\ last' = Request("approveContent", id, input, ContentNotFound(id), Null)
          /\ UNCHANGED <<contentTable, now>>
     ELSE \E approvedAt \in LaterReads :
            LET updateData == ApproveUpdateData(input, now, approvedAt) IN
            /\ now' = IF input.approved THEN approvedAt ELSE now
            /\ IF updateData.approved_by # Null
                  /\ updateData.approved_by[1] \notin usersTable
               THEN \* approved_by references usersTable.id
                    /\ last' = Request("approveContent", id, input,
                                       ForeignKeyViolation("approved_by"), Null)
                    /\ UNCHANGED contentTable
               ELSE /\ contentTable' =
                         [contentTable EXCEPT ![id] = SqlSet(@, updateData)]
                    /\ last' = Request("approveContent", id, input, Ok,
                                       WithId(id, contentTable'[id]))

(* ---------------------------- updateContent ---------------------------- *)
UpdatableFields ==
  {"title", "caption", "hashtags", "platform", "content_type", "status",
   "scheduled_at", "rejected_reason"}

\* testing the fields for truthiness: a field given as null is left out
UpdateData_Truthy(input) ==
  [f \in {g \in DOMAIN input \cap UpdatableFields :
            g \notin {"hashtags", "scheduled_at", "rejected_reason"} \/ input[g] # Null}
          \cup {"updated_at"} |->
     IF f = "updated_at" THEN now ELSE input[f]]

\* keeping the approval fields in step with an edited status
UpdateData_SyncsApproval(input) ==
  [f \in (DOMAIN input \cap UpdatableFields) \cup {"updated_at"}
          \cup (IF "status" \in DOMAIN input /\ input.status # "approved"
                THEN {"approved_by", "approved_at"} ELSE {}) |->
     IF f = "updated_at" THEN now
     ELSE IF f \in {"approved_by", "approved_at"} THEN Null
     ELSE input[f]]

\* only the fields present in the input, and always updated_at
UpdateData(input) ==
  [f \in (DOMAIN input \cap UpdatableFields) \cup {"updated_at"} |->
     IF f = "updated_at" THEN now ELSE input[f]]

UpdateContent(input) ==
  LET id == input.id IN
  /\ UNCHANGED <<now, templateVars, instanceVars>>
  /\ IF id \notin ContentIds
     THEN /\ last' = Request("updateContent", id, input, ContentNotFound(id), Null)
          /\ UNCHANGED contentTable
     ELSE /\ contentTable' =
               [contentTable EXCEPT ![id] = SqlSet(@, UpdateData(input))]
          /\ last' = Request("updateContent", id, input, Ok,
                             WithId(id, contentTable'[id]))

(* ---------------------------- scheduleContent -------------------------- *)
\* scheduledAt < now in place of <=
IsPastOrNow_Strict(scheduledAt) == scheduledAt < now

\* scheduledAt <= now
IsPastOrNow(scheduledAt) == scheduledAt <= now

\* letting scheduled content be scheduled again
CanSchedule_Reschedule(content) == content.status \in {"approved", "scheduled"}

\* content.status !== 'approved' throws
CanSchedule(content) == content.status = "approved"

\* scheduling that drops the approver
ScheduleUpdateData_ClearsApprover(scheduledAt, updatedAt) ==
  [scheduled_at |-> Some(scheduledAt), status |-> "scheduled", updated_at |-> updatedAt,
   approved_by |-> Null]

ScheduleUpdateData(scheduledAt, updatedAt) ==
  [scheduled_at |-> Some(scheduledAt), status |-> "scheduled", updated_at |-> updatedAt]

ScheduleContent(contentId, scheduledAt) ==
  LET input == [scheduledAt |-> scheduledAt] IN
  /\ UNCHANGED <<templateVars, instanceVars>>
  /\ IF IsPastOrNow(scheduledAt)
     THEN /\ last' = Request("scheduleContent", contentId, input, PastDate, Null)
          /\ UNCHANGED <<contentTable, now>>
     ELSE IF contentId \notin ContentIds
     THEN /\ last' = Request("scheduleContent", contentId, input,
                             ContentNotFound(contentId), Null)
          /\ UNCHANGED <<contentTable, now>>
     ELSE IF ~CanSchedule(contentTable[contentId])
     THEN /\ last' = Request("scheduleContent", contentId, input, OnlyApproved, Null)
          /\ UNCHANGED <<contentTable, now>>
     ELSE \E updatedAt \in LaterReads :
            /\ contentTable' = [contentTable EXCEPT ![contentId] =
                 SqlSet(@, ScheduleUpdateData(scheduledAt, updatedAt))]
            /\ now' = updatedAt
            /\ last' = Request("scheduleContent", contentId, input, Ok,
                               WithId(contentId, contentTable'[contentId]))

\* accepting content that is not scheduled
CanUnschedule_Approved(content) == content.status \in {"scheduled", "approved"}

\* content.status !== 'scheduled' throws
CanUnschedule(content) == content.status = "scheduled"

\* leaving scheduled_at as it was
UnscheduleUpdateData_KeepsDate ==
  [status |-> "approved", updated_at |-> now]

\* returning unscheduled content to draft
UnscheduleUpdateData_ToDraft ==
  [scheduled_at |-> Null, status |-> "draft", updated_at |-> now]

UnscheduleUpdateData ==
  [scheduled_at |-> Null, status |-> "approved", updated_at |-> now]

UnscheduleContent(contentId) ==
  /\ UNCHANGED <<now, templateVars, instanceVars>>
  /\ IF contentId \notin ContentIds
     THEN /\ last' = Request("unscheduleContent", contentId, <<>>,
                             ContentNotFound(contentId), Null)
          /\ UNCHANGED contentTable
     ELSE IF ~CanUnschedule(contentTable[contentId])
     THEN /\ last' = Request("unscheduleContent", contentId, <<>>, OnlyScheduled, Null)
          /\ UNCHANGED contentTable
     ELSE /\ contentTable' = [contentTable EXCEPT ![contentId] =
               SqlSet(@, UnscheduleUpdateData)]
          /\ last' = Request("unscheduleContent", contentId, <<>>, Ok,
                             WithId(contentId, contentTable'[contentId]))

(* ---------------------------- createWorkflowTemplate ------------------- *)
\* Array.prototype.sort((a, b) => a - b)
InsertSorted(x, s) ==
  LET i == Cardinality({j \in 1 .. Len(s) : s[j] <= x})
  IN  SubSeq(s, 1, i) \o <<x>> \o SubSeq(s, i + 1, Len(s))

RECURSIVE SortAsc(_)
SortAsc(s) == IF s = <<>> THEN <<>> ELSE InsertSorted(Head(s), SortAsc(Tail(s)))

StepOrders(steps) == SortAsc([i \in 1 .. Len(steps) |-> steps[i].step_order])

\* the loop over stepOrders: no index i with stepOrders[i] !== i + 1 (0-based)
StepOrdersValid(steps) ==
  LET stepOrders == StepOrders(steps)
  IN  \A i \in 1 .. Len(stepOrders) : stepOrders[i] = i

HasAssignee(step) == "assignee_id" \in DOMAIN step /\ step.assignee_id # Null

\* step.assignee_id ?? null
AssigneeOrNull(step) == IF "assignee_id" \in DOMAIN step THEN step.assignee_id ELSE Null

AssigneeIds(steps) ==
  LET withAssignee == SelectSeq(steps, HasAssignee)
  IN  [i \in 1 .. Len(withAssignee) |-> withAssignee[i].assignee_id[1]]

IsMissingUser(id) == id \notin usersTable

\* looking up only the first assignee
MissingAssignees_FirstOnly(steps) ==
  IF AssigneeIds(steps) = <<>>
  THEN <<>>
  ELSE SelectSeq(<<Head(AssigneeIds(steps))>>, IsMissingUser)

\* the assignee ids the loop finds absent from usersTable, in input order
MissingAssignees(steps) == SelectSeq(AssigneeIds(steps), IsMissingUser)

\* writing every step under the first template
StepValues_FirstTemplate(templateId, steps) ==
  [i \in 1 .. Len(steps) |->
     [workflow_template_id |-> 1,
      step_order |-> steps[i].step_order,
      step_type |-> steps[i].step_type,
      required |-> steps[i].required,
      assignee_id |-> AssigneeOrNull(steps[i]),
      created_at |-> now]]

StepValues(templateId, steps) ==
  [i \in 1 .. Len(steps) |->
     [workflow_template_id |-> templateId,
      step_order |-> steps[i].step_order,
      step_type |-> steps[i].step_type,
      required |-> steps[i].required,
      assignee_id |-> AssigneeOrNull(steps[i]),
      created_at |-> now]]

\* returning the steps re-sorted by step_order
NormalizedSteps_Sorted(steps) ==
  [i \in 1 .. Len(steps) |->
     LET j == CHOOSE k \in 1 .. Len(steps) : steps[k].step_order = i
     IN  [step_order |-> steps[j].step_order,
          step_type |-> steps[j].step_type,
          required |-> steps[j].required,
          assignee_id |-> AssigneeOrNull(steps[j])]]

\* input.steps.map(step => ({...step, assignee_id: step.assignee_id ?? null}))
NormalizedSteps(steps) ==
  [i \in 1 .. Len(steps) |->
     [step_order |-> steps[i].step_order,
      step_type |-> steps[i].step_type,
      required |-> steps[i].required,
      assignee_id |-> AssigneeOrNull(steps[i])]]

\* the WorkflowTemplate a handler returns: the template row and a step list
TemplateWithSteps(template, steps) ==
  [id |-> template.id,
   user_id |-> template.user_id,
   name |-> template.name,
   description |-> template.description,
   steps |-> steps,
   is_active |-> template.is_active,
   created_at |-> template.created_at,
   updated_at |-> template.updated_at]

CreateWorkflowTemplate(input) ==
  LET templateId == Len(workflowTemplatesTable) + 1
      fail(err) == /\ last' = Request("createWorkflowTemplate", 0, input, err, Null)
                   /\ UNCHANGED templateVars
  IN
  /\ UNCHANGED <<contentTable, now, instanceVars>>
  /\ IF input.user_id \notin usersTable
     THEN fail(UserIDNotExist(input.user_id))
     ELSE IF ~StepOrdersValid(input.steps)
     THEN fail(StepOrderError)
     ELSE IF MissingAssignees(input.steps) # <<>>
     THEN fail(AssigneeNotExist(Head(MissingAssignees(input.steps))))
     ELSE /\ Len(workflowTemplatesTable) < MaxTemplates
          /\ workflowTemplatesTable' = Append(workflowTemplatesTable,
               [user_id |-> input.user_id,
                name |-> input.name,
                description |-> IF "description" \in DOMAIN input
                                   /\ input.description \notin {Null, Some("")}
                                THEN input.description ELSE Null,
                is_active |-> TRUE,
                created_at |-> now,
                updated_at |-> now])
          /\ IF input.steps = <<>>
             THEN \* insert().values([]) throws after the template row is written
                  /\ UNCHANGED workflowStepsTable
                  /\ last' = Request("createWorkflowTemplate", templateId, input,
                                     EmptyValues, Null)
             ELSE /\ workflowStepsTable' =
                       workflowStepsTable \o StepValues(templateId, input.steps)
                  /\ last' = Request("createWorkflowTemplate", templateId, input, Ok,
                                     TemplateWithSteps(
                                       WithId(templateId,
                                              workflowTemplatesTable'[templateId]),
                                       NormalizedSteps(input.steps)))

(* ---------------------------- getWorkflowTemplates --------------------- *)
TemplateIds == 1 .. Len(workflowTemplatesTable)
StepIds == 1 .. Len(workflowStepsTable)

\* select().from(workflowStepsTable).where(eq(workflow_template_id, id)): the rows of
\* one template, in table order (step rows are only ever inserted)
SelectSteps(templateId) ==
  SelectSeq([i \in StepIds |-> WithId(i, workflowStepsTable[i])],
            LAMBDA step : step.workflow_template_id = templateId)

\* templateIds.map(id => select steps of id), then results.flat()
RECURSIVE FlatSteps(_)
FlatSteps(templateIds) ==
  IF templateIds = <<>> THEN <<>>
  ELSE SelectSteps(Head(templateIds)) \o FlatSteps(Tail(templateIds))

FormattedStep(step) ==
  [step_order |-> step.step_order,
   step_type |-> step.step_type,
   required |-> step.required,
   assignee_id |-> step.assignee_id]

\* stepsByTemplate[templateId] || []
StepsByTemplate(allSteps, templateId) ==
  LET own == SelectSeq(allSteps, LAMBDA step : step.workflow_template_id = templateId)
  IN  [j \in 1 .. Len(own) |-> FormattedStep(own[j])]

GetWorkflowTemplates(userId) ==
  LET templateIds == SelectSeq([t \in TemplateIds |-> t],
                               LAMBDA t : workflowTemplatesTable[t].user_id = userId)
      allSteps == IF Len(templateIds) > 1
                  THEN FlatSteps(templateIds)
                  ELSE SelectSteps(templateIds[1])
  IN
  /\ last' = Request("getWorkflowTemplates", 0, [userId |-> userId], Ok,
         IF templateIds = <<>>
         THEN <<>>
         ELSE [k \in 1 .. Len(templateIds) |->
                 TemplateWithSteps(
                   WithId(templateIds[k], workflowTemplatesTable[templateIds[k]]),
                   StepsByTemplate(allSteps, templateIds[k]))])
  /\ UNCHANGED <<contentTable, templateVars, instanceVars, now>>

GetWorkflowTemplateById(templateId) ==
  /\ last' = Request("getWorkflowTemplateById", templateId,
                     [templateId |-> templateId], Ok,
         IF templateId \notin TemplateIds
         THEN Null
         ELSE LET steps == SelectSteps(templateId) IN
              TemplateWithSteps(
                WithId(templateId, workflowTemplatesTable[templateId]),
                [j \in 1 .. Len(steps) |-> FormattedStep(steps[j])]))
  /\ UNCHANGED <<contentTable, templateVars, instanceVars, now>>

(* ---------------------------- getPendingApprovals ---------------------- *)
\* the ways a select may list the rows named by S, one row per position
Listings(S) ==
  {f \in [1 .. Cardinality(S) -> S] : \A a, b \in 1 .. Cardinality(S) : f[a] = f[b] => a = b}

InstanceIds == 1 .. Len(contentWorkflowInstancesTable)

\* the where clause without the test of the instance's status
IsPendingApproval_AnyInstanceStatus(userId, i) ==
  LET instance == contentWorkflowInstancesTable[i] IN
  /\ instance.content_id \in ContentIds
  /\ instance.current_step_id # Null
  /\ instance.current_step_id[1] \in StepIds
  /\ contentTable[instance.content_id].status = "pending_approval"
  /\ workflowStepsTable[instance.current_step_id[1]].assignee_id = Some(userId)
  /\ workflowStepsTable[instance.current_step_id[1]].step_type = "approval"

\* content INNER JOIN instances ON content.id = content_id INNER JOIN steps ON
\* current_step_id = steps.id WHERE ...: instance i contributes a joined row
\* joining without the content status condition
IsPendingApproval_AnyContentStatus(userId, i) ==
  LET instance == contentWorkflowInstancesTable[i] IN
  /\ instance.content_id \in ContentIds
  /\ instance.current_step_id # Null
  /\ instance.current_step_id[1] \in StepIds
  /\ workflowStepsTable[instance.current_step_id[1]].assignee_id = Some(userId)
  /\ workflowStepsTable[instance.current_step_id[1]].step_type = "approval"
  /\ instance.status = "in_progress"

IsPendingApproval(userId, i) ==
  LET instance == contentWorkflowInstancesTable[i] IN
  /\ instance.content_id \in ContentIds
  /\ instance.current_step_id # Null
  /\ instance.current_step_id[1] \in StepIds
  /\ contentTable[instance.content_id].status = "pending_approval"
  /\ workflowStepsTable[instance.current_step_id[1]].assignee_id = Some(userId)
  /\ workflowStepsTable[instance.current_step_id[1]].step_type = "approval"
  /\ instance.status = "in_progress"

\* ordering by created_at ascending
OrderedByCreatedAtDesc_Asc(rows) ==
  \A k \in 1 .. Len(rows) - 1 : rows[k].created_at <= rows[k + 1].created_at

\* ORDER BY content.created_at DESC; rows with equal created_at come in any order
OrderedByCreatedAtDesc(rows) ==
  \A k \in 1 .. Len(rows) - 1 : rows[k].created_at >= rows[k + 1].created_at

\* the content columns of the joined row instance i contributes
JoinedContent(i) ==
  WithId(contentWorkflowInstancesTable[i].content_id,
         contentTable[contentWorkflowInstancesTable[i].content_id])

GetPendingApprovals(userId) ==
  LET joined == {i \in InstanceIds : IsPendingApproval(userId, i)} IN
  /\ \E listing \in Listings(joined) :
       LET results == [k \in 1 .. Cardinality(joined) |-> JoinedContent(listing[k])] IN
       /\ OrderedByCreatedAtDesc(results)
       /\ last' = Request("getPendingApprovals", 0, [userId |-> userId], Ok, results)
  /\ UNCHANGED <<contentTable, templateVars, instanceVars, now>>

(* ---------------------------- getContentCalendar ----------------------- *)
\* an exclusive upper bound: lt in place of lte
InCalendar_EndExclusive(query, content) ==
  /\ content.user_id = query.user_id
  /\ content.scheduled_at # Null
  /\ content.scheduled_at[1] >= query.start_date
  /\ content.scheduled_at[1] < query.end_date
  /\ ("platform" \in DOMAIN query => content.platform = query.platform)
  /\ ("status" \in DOMAIN query => content.status = query.status)

\* and(...conditions): user_id, isNotNull, gte, lte and the optional platform / status
InCalendar(query, content) ==
  /\ content.user_id = query.user_id
  /\ content.scheduled_at # Null
  /\ content.scheduled_at[1] >= query.start_date
  /\ content.scheduled_at[1] <= query.end_date
  /\ ("platform" \in DOMAIN query => content.platform = query.platform)
  /\ ("status" \in DOMAIN query => content.status = query.status)

\* the select has no ORDER BY: the matching rows come in any order
GetContentCalendar(query) ==
  LET matching == {c \in ContentIds : InCalendar(query, contentTable[c])} IN
  /\ \E listing \in Listings(matching) :
       last' = Request("getContentCalendar", 0, query, Ok,
                       [k \in 1 .. Cardinality(matching) |->
                          WithId(listing[k], contentTable[listing[k]])])
  /\ UNCHANGED <<contentTable, templateVars, instanceVars, now>>

(* ---------------------------- the clock -------------------------------- *)
Tick ==
  /\ now < MaxTime
  /\ now' = now + 1
  /\ last' = Request("tick", 0, <<>>, Ok, Null)
  /\ UNCHANGED <<contentTable, templateVars, instanceVars>>

(* ---------------------------- inputs ----------------------------------- *)
UserIdInputs == 1 .. NumUsers + 1
ContentIdInputs == 1 .. MaxContent + 1
DateInputs == 0 .. MaxTime + 1

BaseContent(u) ==
  [user_id |-> u, title |-> "t1", caption |-> "c1", platform |-> "instagram",
   content_type |-> "post", ai_generated |-> FALSE]

CreateContentInputs ==
  { BaseContent(u) : u \in UserIdInputs }
  \cup { BaseContent(1) @@ [scheduled_at |-> Some(MaxTime + 1)] }

\* generation with and without hashtags and tone, for an existing and a missing user
GenerateContentInputs ==
  { [user_id |-> u, prompt |-> "p", platform |-> "twitter", content_type |-> "reel",
     include_hashtags |-> FALSE] : u \in {1, NumUsers + 1} }
  \cup
  { [user_id |-> 1, prompt |-> "p", platform |-> "twitter", content_type |-> "reel",
     include_hashtags |-> TRUE, tone |-> "funny"] }

ApproveContentInputs ==
  { [content_id |-> c, approved_by |-> u, approved |-> TRUE] :
      c \in ContentIdInputs, u \in UserIdInputs }
  \cup
  { [content_id |-> c, approved_by |-> 1, approved |-> FALSE] :
      c \in ContentIdInputs }
  \cup
  { [content_id |-> c, approved_by |-> 1, approved |-> FALSE,
     rejection_reason |-> r] : c \in ContentIdInputs, r \in {"", "bad tone"} }

UpdateContentInputs ==
  { [id |-> c, status |-> s] : c \in ContentIdInputs, s \in contentStatusEnum }
  \cup { [id |-> 1, rejected_reason |-> Some("edited")] }

Init ==
  /\ contentTable = <<>>
  /\ workflowTemplatesTable = <<>>
  /\ workflowStepsTable = <<>>
  /\ contentWorkflowInstancesTable = <<>>
  /\ now = 0
  /\ last = NoRequest
  /\ prev = NoRequest
  /\ inflight = <<>>

(* content lifecycle: create, edit, approve / reject, schedule / unschedule *)
Next ==
  \/ \E input \in CreateContentInputs : CreateContent(input) /\ UNCHANGED <<prev, inflight>>
  \/ \E input \in GenerateContentInputs : GenerateContent(input) /\ UNCHANGED <<prev, inflight>>
  \/ \E input \in ApproveContentInputs : ApproveContent(input) /\ UNCHANGED <<prev, inflight>>
  \/ \E input \in UpdateContentInputs : UpdateContent(input) /\ UNCHANGED <<prev, inflight>>
  \/ \E c \in ContentIdInputs, t \in DateInputs :
       ScheduleContent(c, t) /\ UNCHANGED <<prev, inflight>>
  \/ \E c \in ContentIdInputs : UnscheduleContent(c) /\ UNCHANGED <<prev, inflight>>
  \/ Tick /\ UNCHANGED <<prev, inflight>>

Spec == Init /\ [][Next]_vars

(* the same lifecycle, also remembering the request before the latest one *)
NextRoundTrip ==
  \/ \E input \in CreateContentInputs : CreateContent(input) /\ prev' = last /\ UNCHANGED inflight
  \/ \E input \in ApproveContentInputs : ApproveContent(input) /\ prev' = last /\ UNCHANGED inflight
  \/ \E c \in ContentIdInputs, t \in DateInputs :
       ScheduleContent(c, t) /\ prev' = last /\ UNCHANGED inflight
  \/ \E c \in ContentIdInputs : UnscheduleContent(c) /\ prev' = last /\ UNCHANGED inflight
  \/ Tick /\ prev' = last /\ UNCHANGED inflight

SpecRoundTrip == Init /\ [][NextRoundTrip]_vars

(* the lifecycle without free edits: every handler but updateContent *)
NextNoUpdate ==
  \/ \E input \in CreateContentInputs : CreateContent(input) /\ UNCHANGED <<prev, inflight>>
  \/ \E input \in GenerateContentInputs : GenerateContent(input) /\ UNCHANGED <<prev, inflight>>
  \/ \E input \in ApproveContentInputs : ApproveContent(input) /\ UNCHANGED <<prev, inflight>>
  \/ \E c \in ContentIdInputs, t \in DateInputs :
       ScheduleContent(c, t) /\ UNCHANGED <<prev, inflight>>
  \/ \E c \in ContentIdInputs : UnscheduleContent(c) /\ UNCHANGED <<prev, inflight>>
  \/ Tick /\ UNCHANGED <<prev, inflight>>

SpecNoUpdate == Init /\ [][NextNoUpdate]_vars

(* partial edits of one content item *)
\* the values an edit may give each field
FieldValues ==
  [title |-> <<"t2">>, caption |-> <<"c2">>, hashtags |-> <<Null, Some("#a")>>,
   platform |-> <<"twitter">>, content_type |-> <<"reel">>, status |-> <<"published">>,
   scheduled_at |-> <<Null, Some(MaxTime + 1)>>,
   rejected_reason |-> <<Null, Some("bad tone")>>]

\* the partial inputs: no field, one field, or all of them
FieldSets ==
  {F \in SUBSET UpdatableFields : Cardinality(F) <= 1 \/ F = UpdatableFields}

PartialInputs(F) ==
  { [f \in F |-> FieldValues[f][k[f]]] :
      k \in {k \in [F -> 1 .. 2] : \A f \in F : k[f] <= Len(FieldValues[f])} }

FullUpdateContentInputs ==
  UNION { { [f \in F \cup {"id"} |-> IF f = "id" THEN c ELSE g[f]] :
              g \in PartialInputs(F) } :
            c \in ContentIdInputs, F \in FieldSets }

NextUpdate ==
  \/ \E input \in CreateContentInputs : CreateContent(input) /\ UNCHANGED <<prev, inflight>>
  \/ \E input \in FullUpdateContentInputs : UpdateContent(input) /\ UNCHANGED <<prev, inflight>>
  \/ Tick /\ UNCHANGED <<prev, inflight>>

SpecUpdate == Init /\ [][NextUpdate]_vars

(* workflow templates *)
StepOrderInputs == 1 .. MaxSteps + 1

StepInputs ==
  UNION { { [step_order |-> o, step_type |-> "generation", required |-> TRUE],
            [step_order |-> o, step_type |-> "review", required |-> FALSE,
             assignee_id |-> Null],
            [step_order |-> o, step_type |-> "approval", required |-> TRUE,
             assignee_id |-> Some(1)],
            [step_order |-> o, step_type |-> "approval", required |-> TRUE,
             assignee_id |-> Some(NumUsers + 1)],
            [step_order |-> o, step_type |-> "scheduling", required |-> FALSE,
             assignee_id |-> Some(NumUsers + 2)] } : o \in StepOrderInputs }

StepListInputs(maxLen) == UNION { [1 .. n -> StepInputs] : n \in 0 .. maxLen }

CreateWorkflowTemplateInputs ==
  { [user_id |-> 1, name |-> "n", steps |-> st] : st \in StepListInputs(MaxSteps) }
  \cup
  { [user_id |-> NumUsers + 1, name |-> "n", steps |-> st] : st \in StepListInputs(1) }
  \cup
  { [user_id |-> 1, name |-> "n", description |-> d, steps |-> <<>>] :
      d \in {Null, Some(""), Some("d")} }

\* the inputs tried once a template exists: one of each outcome
LaterTemplateInputs ==
  { [user_id |-> 1, name |-> "n", steps |-> st] :
      st \in { <<>>,
               << [step_order |-> 1, step_type |-> "approval", required |-> TRUE,
                   assignee_id |-> Some(1)] >>,
               << [step_order |-> 2, step_type |-> "generation", required |-> TRUE] >>,
               << [step_order |-> 1, step_type |-> "approval", required |-> TRUE,
                   assignee_id |-> Some(NumUsers + 1)] >> } }
  \cup
  { [user_id |-> NumUsers + 1, name |-> "n", steps |-> <<>>] }

NextTemplate ==
  \E input \in CreateWorkflowTemplateInputs :
    /\ workflowTemplatesTable = <<>> \/ input \in LaterTemplateInputs
    /\ CreateWorkflowTemplate(input)
    /\ UNCHANGED <<prev, inflight>>

SpecTemplate == Init /\ [][NextTemplate]_vars

(* pending approvals over the rows the tables may hold *)
ListedContent(userId, platform, status, scheduledAt, createdAt) ==
  [user_id |-> userId, title |-> "t1", caption |-> "c1", hashtags |-> Null,
   platform |-> platform, content_type |-> "post", status |-> status,
   ai_generated |-> FALSE, scheduled_at |-> scheduledAt, approved_at |-> Null,
   approved_by |-> Null, rejected_reason |-> Null, created_at |-> createdAt,
   updated_at |-> createdAt]

TablesUpTo(rows, maxLen) == UNION { [1 .. n -> rows] : n \in 0 .. maxLen }

PendingContentRows ==
  { ListedContent(1, "instagram", status, Null, createdAt) :
      status \in {"pending_approval", "approved"}, createdAt \in 0 .. MaxTime }

\* one template whose steps are: approval by user 1, approval by user NumUsers,
\* review by user 1
PendingTemplates ==
  << [user_id |-> 1, name |-> "n", description |-> Null, is_active |-> TRUE,
      created_at |-> 0, updated_at |-> 0] >>

PendingSteps ==
  << [workflow_template_id |-> 1, step_order |-> 1, step_type |-> "approval",
      required |-> TRUE, assignee_id |-> Some(1), created_at |-> 0],
     [workflow_template_id |-> 1, step_order |-> 2, step_type |-> "approval",
      required |-> TRUE, assignee_id |-> Some(NumUsers), created_at |-> 0],
     [workflow_template_id |-> 1, step_order |-> 3, step_type |-> "review",
      required |-> TRUE, assignee_id |-> Some(1), created_at |-> 0] >>

instanceStatuses == {"in_progress", "completed", "cancelled"}

\* instance rows: content_id, workflow_template_id and current_step_id reference rows
InstanceRows(content, templates, steps) ==
  { [content_id |-> c, workflow_template_id |-> t, current_step_id |-> st,
     status |-> status, started_at |-> 0, completed_at |-> Null] :
      c \in 1 .. Len(content), t \in 1 .. Len(templates),
      st \in {Null} \cup {Some(k) : k \in 1 .. Len(steps)},
      status \in instanceStatuses }

InitPending ==
  /\ contentTable \in TablesUpTo(PendingContentRows, MaxListed)
  /\ workflowTemplatesTable = PendingTemplates
  /\ workflowStepsTable = PendingSteps
  /\ contentWorkflowInstancesTable \in
       TablesUpTo(InstanceRows(contentTable, PendingTemplates, PendingSteps),
                  MaxInstances)
  /\ now = MaxTime
  /\ last = NoRequest
  /\ prev = NoRequest
  /\ inflight = <<>>

NextPending ==
  \E userId \in UserIdInputs : GetPendingApprovals(userId) /\ UNCHANGED <<prev, inflight>>

SpecPending == InitPending /\ [][NextPending]_vars

(* the content calendar over the rows contentTable may hold *)
CalendarContentRows ==
  { ListedContent(userId, kind[1], kind[2], scheduledAt, 0) :
      userId \in usersTable,
      kind \in {<<"instagram", "scheduled">>, <<"twitter", "scheduled">>,
                <<"instagram", "draft">>},
      scheduledAt \in {Null} \cup {Some(t) : t \in DateInputs} }

\* asked by an owner of content and by an id that references no user
CalendarRanges ==
  { [user_id |-> userId, start_date |-> startDate, end_date |-> endDate] :
      userId \in {1, NumUsers + 1}, startDate \in DateInputs, endDate \in DateInputs }

ContentCalendarQueries ==
  CalendarRanges
  \cup { q @@ [platform |-> "instagram"] : q \in CalendarRanges }
  \cup { q @@ [status |-> "scheduled"] : q \in CalendarRanges }
  \cup { q @@ [platform |-> "instagram", status |-> "scheduled"] : q \in CalendarRanges }

InitCalendar ==
  /\ contentTable \in TablesUpTo(CalendarContentRows, MaxListed)
  /\ workflowTemplatesTable = <<>>
  /\ workflowStepsTable = <<>>
  /\ contentWorkflowInstancesTable = <<>>
  /\ now = MaxTime
  /\ last = NoRequest
  /\ prev = NoRequest
  /\ inflight = <<>>

NextCalendar ==
  \E query \in ContentCalendarQueries : GetContentCalendar(query) /\ UNCHANGED <<prev, inflight>>

SpecCalendar == InitCalendar /\ [][NextCalendar]_vars

(* listing templates over the rows successive createWorkflowTemplate calls leave *)
\* the step lists of the stored templates: none (the template row an empty step list
\* leaves behind), one step, two steps declared in order and two declared in reverse
ListedStepLists ==
  { <<>>,
    << [step_order |-> 1, step_type |-> "generation", required |-> TRUE] >>,
    << [step_order |-> 1, step_type |-> "review", required |-> FALSE],
       [step_order |-> 2, step_type |-> "approval", required |-> TRUE,
        assignee_id |-> Some(1)] >>,
    << [step_order |-> 2, step_type |-> "approval", required |-> TRUE,
        assignee_id |-> Some(1)],
       [step_order |-> 1, step_type |-> "review", required |-> FALSE] >> }

ListedTemplate(userId) ==
  [user_id |-> userId, name |-> "n", description |-> Null, is_active |-> TRUE,
   created_at |-> now, updated_at |-> now]

\* the step rows of templates 1..n, each template's batch after the one before
RECURSIVE ListedSteps(_, _)
ListedSteps(lists, n) ==
  IF n = 0 THEN <<>> ELSE ListedSteps(lists, n - 1) \o StepValues(n, lists[n])

InitTemplateQuery ==
  /\ now = MaxTime
  /\ contentTable = <<>>
  /\ contentWorkflowInstancesTable = <<>>
  /\ \E owners \in TablesUpTo(usersTable, MaxListed) :
       \E lists \in [1 .. Len(owners) -> ListedStepLists] :
         /\ workflowTemplatesTable =
              [t \in 1 .. Len(owners) |-> ListedTemplate(owners[t])]
         /\ workflowStepsTable = ListedSteps(lists, Len(owners))
  /\ last = NoRequest
  /\ prev = NoRequest
  /\ inflight = <<>>

TemplateIdInputs == 1 .. MaxListed + 1

NextTemplateQuery ==
  \/ \E userId \in UserIdInputs : GetWorkflowTemplates(userId) /\ UNCHANGED <<prev, inflight>>
  \/ \E templateId \in TemplateIdInputs :
       GetWorkflowTemplateById(templateId) /\ UNCHANGED <<prev, inflight>>

SpecTemplateQuery == InitTemplateQuery /\ [][NextTemplateQuery]_vars

(* --------- content handlers on an item that is inside a workflow ------- *)
\* one item waiting for approval, the template of PendingSteps, and up to
\* MaxInstances workflow instances of the item
WorkflowContent == << ListedContent(1, "instagram", "pending_approval", Null, 0) >>

\* instances of the item that wait at the approval step of user 1 or at the review
\* step, in progress or completed
WorkflowInstanceRows ==
  { i \in InstanceRows(WorkflowContent, PendingTemplates, PendingSteps) :
      /\ i.current_step_id \in {Some(1), Some(3)}
      /\ i.status \in {"in_progress", "completed"} }

WorkflowApproveInputs ==
  { [content_id |-> c, approved_by |-> 1, approved |-> a] :
      c \in ContentIdInputs, a \in BOOLEAN }

WorkflowUpdateInputs ==
  { [id |-> 1, status |-> s] : s \in {"draft", "pending_approval"} }

InitWorkflow ==
  /\ contentTable = WorkflowContent
  /\ workflowTemplatesTable = PendingTemplates
  /\ workflowStepsTable = PendingSteps
  /\ contentWorkflowInstancesTable \in TablesUpTo(WorkflowInstanceRows, MaxInstances)
  /\ now = 0
  /\ last = NoRequest
  /\ prev = NoRequest
  /\ inflight = <<>>

NextWorkflow ==
  \/ \E input \in WorkflowApproveInputs : ApproveContent(input) /\ UNCHANGED <<prev, inflight>>
  \/ \E input \in WorkflowUpdateInputs : UpdateContent(input) /\ UNCHANGED <<prev, inflight>>
  \/ \E t \in DateInputs : ScheduleContent(1, t) /\ UNCHANGED <<prev, inflight>>
  \/ UnscheduleContent(1) /\ UNCHANGED <<prev, inflight>>
  \/ \E userId \in UserIdInputs : GetPendingApprovals(userId) /\ UNCHANGED <<prev, inflight>>
  \/ Tick /\ UNCHANGED <<prev, inflight>>

SpecWorkflow == InitWorkflow /\ [][NextWorkflow]_vars

(* ------------- every operation of the system, on small inputs ---------- *)
SystemTemplateInputs ==
  { input \in LaterTemplateInputs : input.user_id = 1 }
  \cup
  { [user_id |-> 1, name |-> "n",
     steps |-> << [step_order |-> 2, step_type |-> "approval", required |-> TRUE,
                   assignee_id |-> Some(1)],
                  [step_order |-> 1, step_type |-> "review", required |-> FALSE] >>] }

NextSystem ==
  \/ CreateContent(BaseContent(1)) /\ UNCHANGED <<prev, inflight>>
  \/ \E input \in GenerateContentInputs :
       input.user_id = 1 /\ GenerateContent(input) /\ UNCHANGED <<prev, inflight>>
  \/ \E input \in WorkflowApproveInputs : ApproveContent(input) /\ UNCHANGED <<prev, inflight>>
  \/ \E input \in WorkflowUpdateInputs : UpdateContent(input) /\ UNCHANGED <<prev, inflight>>
  \/ ScheduleContent(1, MaxTime + 1) /\ UNCHANGED <<prev, inflight>>
  \/ UnscheduleContent(1) /\ UNCHANGED <<prev, inflight>>
  \/ \E input \in SystemTemplateInputs :
       CreateWorkflowTemplate(input) /\ UNCHANGED <<prev, inflight>>
  \/ \E templateId \in TemplateIdInputs :
       GetWorkflowTemplateById(templateId) /\ UNCHANGED <<prev, inflight>>
  \/ GetWorkflowTemplates(1) /\ UNCHANGED <<prev, inflight>>
  \/ GetPendingApprovals(1) /\ UNCHANGED <<prev, inflight>>
  \/ GetContentCalendar([user_id |-> 1, start_date |-> 0, end_date |-> MaxTime + 1])
       /\ UNCHANGED <<prev, inflight>>
  \/ Tick /\ UNCHANGED <<prev, inflight>>

SpecSystem == Init /\ [][NextSystem]_vars

(* ---- requests whose select and update interleave with other requests --- *)
\* what a handler holds between its select and its update
InFlight(op, id, input, content) == [op |-> op, id |-> id, input |-> input, read |-> content]

Remove(requests, k) == SubSeq(requests, 1, k - 1) \o SubSeq(requests, k + 1, Len(requests))

\* scheduleContent up to its status check: the date check, the select, the two throws
ScheduleContentRead(contentId, scheduledAt) ==
  LET input == [scheduledAt |-> scheduledAt] IN
  /\ UNCHANGED <<contentTable, templateVars, instanceVars, now, prev>>
  /\ IF IsPastOrNow(scheduledAt)
     THEN /\ last' = Request("scheduleContent", contentId, input, PastDate, Null)
          /\ UNCHANGED inflight
     ELSE IF contentId \notin ContentIds
     THEN /\ last' = Request("scheduleContent", contentId, input,
                             ContentNotFound(contentId), Null)
          /\ UNCHANGED inflight
     ELSE IF ~CanSchedule(contentTable[contentId])
     THEN /\ last' = Request("scheduleContent", contentId, input, OnlyApproved, Null)
          /\ UNCHANGED inflight
     ELSE /\ Len(inflight) < MaxInFlight
          /\ inflight' = Append(inflight, InFlight("scheduleContent", contentId, input,
                                                  contentTable[contentId]))
          /\ UNCHANGED last

\* scheduleContent's update ... where id = contentId
ScheduleContentWrite(k) ==
  LET request == inflight[k] IN
  /\ request.op = "scheduleContent"
  /\ UNCHANGED <<templateVars, instanceVars, prev>>
  /\ inflight' = Remove(inflight, k)
  /\ \E updatedAt \in LaterReads :
       /\ contentTable' = [contentTable EXCEPT ![request.id] =
            SqlSet(@, ScheduleUpdateData(request.input.scheduledAt, updatedAt))]
       /\ now' = updatedAt
       /\ last' = Request("scheduleContent", request.id, request.input, Ok,
                          WithId(request.id, contentTable'[request.id]))

\* unscheduleContent up to its status check
UnscheduleContentRead(contentId) ==
  /\ UNCHANGED <<contentTable, templateVars, instanceVars, now, prev>>
  /\ IF contentId \notin ContentIds
     THEN /\ last' = Request("unscheduleContent", contentId, <<>>,
                             ContentNotFound(contentId), Null)
          /\ UNCHANGED inflight
     ELSE IF ~CanUnschedule(contentTable[contentId])
     THEN /\ last' = Request("unscheduleContent", contentId, <<>>, OnlyScheduled, Null)
          /\ UNCHANGED inflight
     ELSE /\ Len(inflight) < MaxInFlight
          /\ inflight' = Append(inflight, InFlight("unscheduleContent", contentId, <<>>,
                                                  contentTable[contentId]))
          /\ UNCHANGED last

\* unscheduleContent's update ... where id = contentId
UnscheduleContentWrite(k) ==
  LET request == inflight[k] IN
  /\ request.op = "unscheduleContent"
  /\ UNCHANGED <<templateVars, instanceVars, now, prev>>
  /\ inflight' = Remove(inflight, k)
  /\ contentTable' = [contentTable EXCEPT ![request.id] =
       SqlSet(@, UnscheduleUpdateData)]
  /\ last' = Request("unscheduleContent", request.id, <<>>, Ok,
                     WithId(request.id, contentTable'[request.id]))

\* approveContent up to its not-found check
ApproveContentRead(input) ==
  LET id == input.content_id IN
  /\ UNCHANGED <<contentTable, templateVars, instanceVars, now, prev>>
  /\ IF id \notin ContentIds
     THEN /\ last' = Request("approveContent", id, input, ContentNotFound(id), Null)
          /\ UNCHANGED inflight
     ELSE /\ Len(inflight) < MaxInFlight
          /\ inflight' = Append(inflight, InFlight("approveContent", id, input,
                                                  contentTable[id]))
          /\ UNCHANGED last

\* approveContent from building updateData to its update ... where id = content_id
ApproveContentWrite(k) ==
  LET request == inflight[k] IN
  /\ request.op = "approveContent"
  /\ UNCHANGED <<templateVars, instanceVars, prev>>
  /\ inflight' = Remove(inflight, k)
  /\ \E approvedAt \in LaterReads :
       LET updateData == ApproveUpdateData(request.input, now, approvedAt) IN
       /\ now' = IF request.input.approved THEN approvedAt ELSE now
       /\ IF updateData.approved_by # Null
             /\ updateData.approved_by[1] \notin usersTable
          THEN /\ last' = Request("approveContent", request.id, request.input,
                                  ForeignKeyViolation("approved_by"), Null)
               /\ UNCHANGED contentTable
          ELSE /\ contentTable' =
                    [contentTable EXCEPT ![request.id] = SqlSet(@, updateData)]
               /\ last' = Request("approveContent", request.id, request.input, Ok,
                                  WithId(request.id, contentTable'[request.id]))

\* one item that an approver approved, waiting to be scheduled or already scheduled
ConcurrentContent ==
  { << [ListedContent(1, "instagram", "approved", Null, 0)
          EXCEPT !.approved_by = Some(1), !.approved_at = Some(0)] >>,
    << [ListedContent(1, "instagram", "scheduled", Some(MaxTime + 1), 0)
          EXCEPT !.approved_by = Some(1), !.approved_at = Some(0)] >> }

InitConcurrent ==
  /\ contentTable \in ConcurrentContent
  /\ workflowTemplatesTable = <<>>
  /\ workflowStepsTable = <<>>
  /\ contentWorkflowInstancesTable = <<>>
  /\ now = 0
  /\ last = NoRequest
  /\ prev = NoRequest
  /\ inflight = <<>>

NextConcurrent ==
  \/ \E c \in ContentIdInputs, t \in DateInputs : ScheduleContentRead(c, t)
  \/ \E k \in 1 .. Len(inflight) : ScheduleContentWrite(k)
  \/ \E c \in ContentIdInputs : UnscheduleContentRead(c)
  \/ \E k \in 1 .. Len(inflight) : UnscheduleContentWrite(k)
  \/ \E input \in WorkflowApproveInputs : ApproveContentRead(input)
  \/ \E k \in 1 .. Len(inflight) : ApproveContentWrite(k)

SpecConcurrent == InitConcurrent /\ [][NextConcurrent]_vars

(* ======================= properties ===================================== *)
\* the content row the latest request addresses, as it is now
Row == contentTable[last.id]
\* the latest request addresses a row that existed when it arrived
Found(r) == r.id \in DOMAIN r.before.content
Approves(r) == r.op = "approveContent" /\ r.input.approved
Rejects(r) == r.op = "approveContent" /\ ~r.input.approved
Schedules(r) == r.op = "scheduleContent"
FutureDate(r) == r.input.scheduledAt > r.at
ContentUntouched == contentTable = last.before.content

RowApprovedBy(approver) ==
  /\ Row.status = "approved"
  /\ Row.approved_by = Some(approver)
  /\ Row.approved_at # Null
  /\ Row.rejected_reason = Null

\* C1 (as stated): approveContent with approved=true on an existing item succeeds
\* from any status, for any given approver, and leaves status=approved,
\* approved_by=approver, approved_at non-null, rejected_reason=null.
C1_ApproveAnyApprover ==
  (Approves(last) /\ Found(last)) =>
    (last.result = Ok /\ RowApprovedBy(last.input.approved_by))

\* C1 (amended): approveContent with approved=true on an existing item, given an
\* approver that references an existing user, succeeds from any status and leaves
\* status=approved, approved_by=approver, approved_at non-null, rejected_reason=null.
C1_ApproveFromAnyStatus ==
  (Approves(last) /\ Found(last) /\ last.input.approved_by \in usersTable) =>
    (last.result = Ok /\ RowApprovedBy(last.input.approved_by))

\* a published item that carried a rejection reason has been approved
C1_Witness ==
  /\ Approves(last) /\ Found(last) /\ last.result = Ok
  /\ RowBefore(last).status = "published"
  /\ RowBefore(last).rejected_reason # Null
  /\ RowApprovedBy(last.input.approved_by)

RowRejectedWith(reason) ==
  /\ Row.status = "rejected"
  /\ Row.rejected_reason = Some(reason)
  /\ Row.approved_by = Null
  /\ Row.approved_at = Null

\* C2 (as stated): approveContent with approved=false on an existing item leaves
\* status=rejected, rejected_reason = the provided reason ("No reason provided"
\* when none is provided), approved_by and approved_at null.
C2_RejectKeepsProvidedReason ==
  (Rejects(last) /\ Found(last)) =>
    RowRejectedWith(IF "rejection_reason" \in DOMAIN last.input
                    THEN last.input.rejection_reason
                    ELSE "No reason provided")

\* C2 (amended): approveContent with approved=false on an existing item leaves
\* status=rejected, rejected_reason = the provided reason, or "No reason provided"
\* when no reason or an empty reason is provided, approved_by and approved_at null.
C2_RejectFromAnyStatus ==
  (Rejects(last) /\ Found(last)) =>
    /\ last.result = Ok
    /\ RowRejectedWith(IF "rejection_reason" \in DOMAIN last.input
                          /\ last.input.rejection_reason # ""
                       THEN last.input.rejection_reason
                       ELSE "No reason provided")

\* an item approved earlier has been rejected with the reason "bad tone"
C2_Witness ==
  /\ Rejects(last) /\ Found(last)
  /\ RowBefore(last).approved_by # Null
  /\ RowBefore(last).approved_at # Null
  /\ "rejection_reason" \in DOMAIN last.input
  /\ RowRejectedWith("bad tone")

\* C3: scheduleContent(c, t) with t later than the current time on an existing item
\* succeeds iff the item's status is approved; on success status=scheduled and
\* scheduled_at=t; for every other status it fails with 'Only approved content can
\* be scheduled' and the content records are unchanged.
C3_ScheduleIffApproved ==
  (Schedules(last) /\ Found(last) /\ FutureDate(last)) =>
    IF RowBefore(last).status = "approved"
    THEN /\ last.result = Ok
         /\ Row.status = "scheduled"
         /\ Row.scheduled_at = Some(last.input.scheduledAt)
    ELSE /\ last.result = <<"Only approved content can be scheduled">>
         /\ ContentUntouched

\* an approved item has been scheduled for a future time
C3_Witness ==
  /\ Schedules(last) /\ Found(last) /\ FutureDate(last)
  /\ RowBefore(last).status = "approved"
  /\ last.result = Ok
  /\ Row.status = "scheduled"

\* C4: unscheduleContent(c) on an existing item succeeds iff the item's status is
\* scheduled; on success status=approved and scheduled_at=null; for every other
\* status it fails with 'Only scheduled content can be unscheduled' and the content
\* records are unchanged.
C4_UnscheduleIffScheduled ==
  (last.op = "unscheduleContent" /\ Found(last)) =>
    IF RowBefore(last).status = "scheduled"
    THEN /\ last.result = Ok
         /\ Row.status = "approved"
         /\ Row.scheduled_at = Null
    ELSE /\ last.result = <<"Only scheduled content can be unscheduled">>
         /\ ContentUntouched

\* a scheduled item carrying a date has been unscheduled
C4_Witness ==
  /\ last.op = "unscheduleContent" /\ Found(last)
  /\ RowBefore(last).status = "scheduled"
  /\ RowBefore(last).scheduled_at # Null
  /\ last.result = Ok
  /\ Row.scheduled_at = Null

\* C5: scheduleContent(c, t) with t earlier than or equal to the current time fails
\* with the past-date validation error whatever the state of c, also when no item has
\* that id, and changes no content record.
C5_PastDateFirst ==
  (Schedules(last) /\ ~FutureDate(last)) =>
    /\ last.result = <<"Cannot schedule content for a past date or current time">>
    /\ ContentUntouched

\* scheduling for the current time under an id that references no item, while an
\* item exists
C5_Witness ==
  /\ Schedules(last) /\ last.input.scheduledAt = last.at
  /\ ~Found(last)
  /\ Len(contentTable) > 0
  /\ last.result = PastDate

NotFoundOps ==
  {"approveContent", "updateContent", "scheduleContent", "unscheduleContent"}

\* C8: approveContent, updateContent, scheduleContent (with a future time) and
\* unscheduleContent called with an id that references no item fail with a not-found
\* error citing that id, create no content record and leave every content record
\* unchanged.
C8_NotFoundChangesNothing ==
  (/\ last.op \in NotFoundOps
   /\ ~Found(last)
   /\ (Schedules(last) => FutureDate(last))) =>
    /\ last.result = <<"Content with id ${id} not found", last.id>>
    /\ ContentUntouched

\* updateContent was called with an id that references no item while an item exists
C8_Witness ==
  /\ last.op = "updateContent"
  /\ ~Found(last)
  /\ Len(contentTable) > 0
  /\ last.result # Ok

\* C6: for an approved item and a future time t, scheduleContent(c, t) followed by
\* unscheduleContent(c) both succeed and leave status=approved and scheduled_at=null
\* (t is not retained), every field other than scheduled_at and updated_at as it was
\* before the two calls; after an unschedule the item can be scheduled again with a
\* new time.
C6_ScheduleThenUnschedule ==
  /\ (/\ Schedules(prev) /\ Found(prev) /\ FutureDate(prev)
      /\ RowBefore(prev).status = "approved"
      /\ last.op = "unscheduleContent" /\ last.id = prev.id) =>
       /\ prev.result = Ok
       /\ last.result = Ok
       /\ Row.status = "approved"
       /\ Row.scheduled_at = Null
       /\ \A f \in DOMAIN Row \ {"scheduled_at", "updated_at"} :
            Row[f] = RowBefore(prev)[f]
  /\ (/\ prev.op = "unscheduleContent" /\ prev.result = Ok
      /\ Schedules(last) /\ last.id = prev.id /\ FutureDate(last)) =>
       /\ last.result = Ok
       /\ Row.status = "scheduled"
       /\ Row.scheduled_at = Some(last.input.scheduledAt)

\* an approved item was scheduled for t and then unscheduled: the row that held t
\* holds no date any more
C6_Witness ==
  /\ Schedules(prev) /\ prev.result = Ok
  /\ RowBefore(prev).status = "approved"
  /\ last.op = "unscheduleContent" /\ last.id = prev.id /\ last.result = Ok
  /\ RowBefore(last).scheduled_at = Some(prev.input.scheduledAt)
  /\ Row.scheduled_at = Null
  /\ Row.status = "approved"

EditableFields ==
  {"title", "caption", "hashtags", "platform", "content_type", "status",
   "scheduled_at", "rejected_reason"}

\* C7: updateContent on an existing item changes exactly the fields present in the
\* input among title, caption, hashtags, platform, content_type, status, scheduled_at
\* and rejected_reason, plus updated_at: an omitted field keeps its stored value and
\* a nullable field present with null is cleared.
C7_UpdateOnlyPresentFields ==
  (last.op = "updateContent" /\ Found(last)) =>
    /\ last.result = Ok
    /\ \A f \in DOMAIN Row :
         Row[f] = IF f = "updated_at" THEN last.at
                  ELSE IF f \in EditableFields /\ f \in DOMAIN last.input
                       THEN last.input[f]
                       ELSE RowBefore(last)[f]

\* an edit naming only hashtags, as null, cleared the stored hashtags and kept the
\* edited title and the stored rejection reason
C7_Witness ==
  /\ last.op = "updateContent" /\ Found(last) /\ last.result = Ok
  /\ DOMAIN last.input = {"id", "hashtags"}
  /\ last.input.hashtags = Null
  /\ RowBefore(last).hashtags = Some("#a")
  /\ RowBefore(last).title = "t2"
  /\ RowBefore(last).rejected_reason # Null
  /\ Row.hashtags = Null
  /\ Row.title = "t2"
  /\ Row.rejected_reason = RowBefore(last).rejected_reason

CreatesTemplate(r) == r.op = "createWorkflowTemplate"
OwnerExists(r) == r.input.user_id \in usersTable
MissingAt(steps) ==
  {i \in 1 .. Len(steps) :
     /\ "assignee_id" \in DOMAIN steps[i]
     /\ steps[i].assignee_id # Null
     /\ steps[i].assignee_id[1] \notin usersTable}
AssigneesExist(r) == MissingAt(r.input.steps) = {}
\* the step_order values, once sorted, are exactly 1..N
OrdersAreOneToN(steps) ==
  {steps[i].step_order : i \in 1 .. Len(steps)} = 1 .. Len(steps)
TemplatesUntouched ==
  /\ workflowTemplatesTable = last.before.templates
  /\ workflowStepsTable = last.before.steps

\* C9: for an existing owner and existing assignees, createWorkflowTemplate accepts a
\* step list iff its step_order values, once sorted, are exactly 1..N; otherwise the
\* list is rejected with the step-order validation error.
C9_AcceptsIffOneToN ==
  (CreatesTemplate(last) /\ OwnerExists(last) /\ AssigneesExist(last)) =>
    IF OrdersAreOneToN(last.input.steps)
    THEN last.result = Ok
    ELSE last.result = <<"Step orders must be consecutive starting from 1">>

FirstMissingAssignee(steps) ==
  LET first == CHOOSE i \in MissingAt(steps) : \A j \in MissingAt(steps) : i <= j
  IN  steps[first].assignee_id[1]

StepAssigneesExist ==
  \A i \in 1 .. Len(workflowStepsTable) :
    workflowStepsTable[i].assignee_id # Null =>
      workflowStepsTable[i].assignee_id[1] \in usersTable

\* C10 (as stated): createWorkflowTemplate fails with a not-found error, persisting
\* nothing, when the owner references no user or when any step's non-null assignee
\* references no user (citing the first missing assignee in input order); every
\* persisted step's non-null assignee references a user.
C10_NotFoundWheneverMissing ==
  /\ StepAssigneesExist
  /\ (CreatesTemplate(last) /\ ~OwnerExists(last)) =>
       /\ last.result = <<"User with ID ${id} does not exist", last.input.user_id>>
       /\ TemplatesUntouched
  /\ (CreatesTemplate(last) /\ OwnerExists(last) /\ ~AssigneesExist(last)) =>
       /\ last.result = <<"Assignee with ID ${id} does not exist",
                          FirstMissingAssignee(last.input.steps)>>
       /\ TemplatesUntouched

\* C10 (amended): createWorkflowTemplate fails, persisting nothing, whenever the owner
\* or any step's non-null assignee references no user: with a not-found error citing
\* the owner when the owner is missing; with a not-found error citing the first
\* missing assignee in input order when the owner exists and the step orders, sorted,
\* are 1..N; with the step-order validation error when the owner exists and they are
\* not. Every persisted step's non-null assignee references a user.
C10_NotFoundAfterStepOrder ==
  /\ StepAssigneesExist
  /\ (CreatesTemplate(last) /\ ~OwnerExists(last)) =>
       /\ last.result = <<"User with ID ${id} does not exist", last.input.user_id>>
       /\ TemplatesUntouched
  /\ (CreatesTemplate(last) /\ OwnerExists(last) /\ ~AssigneesExist(last)) =>
       /\ last.result =
            IF OrdersAreOneToN(last.input.steps)
            THEN <<"Assignee with ID ${id} does not exist",
                   FirstMissingAssignee(last.input.steps)>>
            ELSE <<"Step orders must be consecutive starting from 1">>
       /\ TemplatesUntouched

\* two steps in order 2, 1 name two different missing assignees: the error cites the
\* one given first, and nothing was persisted
C10_Witness ==
  /\ CreatesTemplate(last) /\ OwnerExists(last)
  /\ Len(last.input.steps) = 2
  /\ last.input.steps[1].step_order = 2
  /\ Cardinality(MissingAt(last.input.steps)) = 2
  /\ last.input.steps[1].assignee_id # last.input.steps[2].assignee_id
  /\ last.result = AssigneeNotExist(last.input.steps[1].assignee_id[1])
  /\ TemplatesUntouched

\* the step rows persisted for a template, in table order
StepsOf(templateId) ==
  SelectSeq(workflowStepsTable, LAMBDA row : row.workflow_template_id = templateId)

\* C11: createWorkflowTemplate is all-or-nothing: a call that failed at any point
\* (validation or the step-batch write, e.g. for an empty step list) leaves no template
\* record behind, and a template a call persisted has one step record per step the
\* call declared.
C11_AllOrNothing ==
  /\ (CreatesTemplate(last) /\ last.result # Ok) => TemplatesUntouched
  /\ (CreatesTemplate(last) /\ last.result = Ok) =>
       /\ Len(workflowTemplatesTable) = Len(last.before.templates) + 1
       /\ Len(StepsOf(last.id)) = Len(last.input.steps)

\* the step rows a request found for a template
StepsBefore(r, templateId) ==
  SelectSeq(r.before.steps, LAMBDA row : row.workflow_template_id = templateId)

DeclaredAssignee(step) ==
  IF "assignee_id" \in DOMAIN step THEN step.assignee_id ELSE <<>>

\* C12: a successful createWorkflowTemplate call persists, for the new template id,
\* exactly one step record per declared step, with the declared step_order, step_type
\* and required flag and with assignee_id null when the assignee was omitted or null;
\* the returned template lists the steps in the caller's declared order.
C12_PersistsDeclaredSteps ==
  (CreatesTemplate(last) /\ last.result = Ok) =>
    LET declared == last.input.steps
        rows == StepsOf(last.id)
    IN  /\ StepsBefore(last, last.id) = <<>>
        /\ Len(rows) = Len(declared)
        /\ \A i \in 1 .. Len(declared) :
             \E j \in 1 .. Len(rows) :
               /\ rows[j].step_order = declared[i].step_order
               /\ rows[j].step_type = declared[i].step_type
               /\ rows[j].required = declared[i].required
               /\ rows[j].assignee_id = DeclaredAssignee(declared[i])
               /\ \A k \in 1 .. Len(rows) :
                    rows[k].step_order = declared[i].step_order => k = j
        /\ last.returned.id = last.id
        /\ Len(last.returned.steps) = Len(declared)
        /\ \A i \in 1 .. Len(declared) :
             /\ last.returned.steps[i].step_order = declared[i].step_order
             /\ last.returned.steps[i].step_type = declared[i].step_type
             /\ last.returned.steps[i].required = declared[i].required
             /\ last.returned.steps[i].assignee_id = DeclaredAssignee(declared[i])

\* a template was created from two steps declared in the order 2, 1, the first with
\* an assignee and the second without: two rows are persisted and the returned list
\* starts with step 2
C12_Witness ==
  /\ CreatesTemplate(last) /\ last.result = Ok
  /\ Len(last.input.steps) = 2
  /\ last.input.steps[1].step_order = 2
  /\ DeclaredAssignee(last.input.steps[1]) = Some(1)
  /\ "assignee_id" \notin DOMAIN last.input.steps[2]
  /\ Len(StepsOf(last.id)) = 2
  /\ last.returned.steps[1].step_order = 2
  /\ last.returned.steps[2].assignee_id = Null

AsksPending(r) == r.op = "getPendingApprovals"
ReturnedIds(r) == {r.returned[k].id : k \in 1 .. Len(r.returned)}

\* the item has a workflow instance in progress whose current step is an approval
\* step assigned to the user
HasQualifyingInstance(c, userId) ==
  \E i \in 1 .. Len(contentWorkflowInstancesTable) :
    LET instance == contentWorkflowInstancesTable[i] IN
    /\ instance.content_id = c
    /\ instance.status = "in_progress"
    /\ instance.current_step_id # <<>>
    /\ \E st \in 1 .. Len(workflowStepsTable) :
         /\ instance.current_step_id = <<st>>
         /\ workflowStepsTable[st].step_type = "approval"
         /\ workflowStepsTable[st].assignee_id = <<userId>>

\* C13: getPendingApprovals(u) returns a content item iff the item's status is
\* pending_approval and it has a workflow instance with status in_progress whose
\* current step is an approval step assigned to u; the result is empty when nothing
\* matches, and every returned entry is the stored item.
C13_PendingIffQualifying ==
  AsksPending(last) =>
    /\ last.result = Ok
    /\ \A c \in 1 .. Len(contentTable) :
         c \in ReturnedIds(last) <=>
           /\ contentTable[c].status = "pending_approval"
           /\ HasQualifyingInstance(c, last.input.userId)
    /\ ReturnedIds(last) \subseteq 1 .. Len(contentTable)
    /\ \A k \in 1 .. Len(last.returned) :
         \A f \in DOMAIN contentTable[last.returned[k].id] :
           last.returned[k][f] = contentTable[last.returned[k].id][f]

\* of two pending items, one whose instance is in progress at the user's approval step
\* is returned and the other, whose instance at the same step is completed, is not
C13_Witness ==
  /\ AsksPending(last)
  /\ Len(contentTable) = 2
  /\ contentTable[1].status = "pending_approval"
  /\ contentTable[2].status = "pending_approval"
  /\ Len(contentWorkflowInstancesTable) = 2
  /\ contentWorkflowInstancesTable[1].content_id = 1
  /\ contentWorkflowInstancesTable[2].content_id = 2
  /\ contentWorkflowInstancesTable[1].current_step_id =
       contentWorkflowInstancesTable[2].current_step_id
  /\ contentWorkflowInstancesTable[2].status = "completed"
  /\ ReturnedIds(last) = {1}

\* C14: the list returned by getPendingApprovals is ordered by content created_at
\* descending: of two consecutive entries the earlier one's created_at is greater
\* than or equal to the later one's.
C14_NewestFirst ==
  AsksPending(last) =>
    \A k \in 1 .. Len(last.returned) - 1 :
      last.returned[k].created_at >= last.returned[k + 1].created_at

\* two items are returned, the one stored second and created later coming first
C14_Witness ==
  /\ AsksPending(last)
  /\ Len(last.returned) = 2
  /\ last.returned[1].id = 2
  /\ last.returned[2].id = 1
  /\ last.returned[1].created_at > last.returned[2].created_at

\* C15: in the result of getPendingApprovals(u) a content item appears only if it has
\* exactly one qualifying workflow instance; no content item appears more than once,
\* even when several workflow instances are bound to the same content item.
C15_NoItemTwice ==
  AsksPending(last) =>
    \A j, k \in 1 .. Len(last.returned) :
      last.returned[j].id = last.returned[k].id => j = k

AsksCalendar(r) == r.op = "getContentCalendar"

\* C16: getContentCalendar(user, start, end, platform?, status?) returns exactly the
\* content items owned by that user whose scheduled_at is non-null and satisfies
\* start <= scheduled_at <= end (both bounds inclusive), restricted to the given
\* platform and/or status when those filters are present; without a status filter the
\* item's status does not matter, and the result is empty when nothing matches.
C16_CalendarExactlyInRange ==
  AsksCalendar(last) =>
    LET q == last.input
        expected ==
          {c \in 1 .. Len(contentTable) :
             /\ contentTable[c].user_id = q.user_id
             /\ contentTable[c].scheduled_at # <<>>
             /\ \E t \in q.start_date .. q.end_date : contentTable[c].scheduled_at = <<t>>
             /\ "platform" \in DOMAIN q => contentTable[c].platform = q.platform
             /\ "status" \in DOMAIN q => contentTable[c].status = q.status}
    IN  /\ last.result = Ok
        /\ ReturnedIds(last) = expected
        /\ Len(last.returned) = Cardinality(expected)
        /\ \A k \in 1 .. Len(last.returned) :
             \A f \in DOMAIN contentTable[last.returned[k].id] :
               last.returned[k][f] = contentTable[last.returned[k].id][f]

\* a query without filters over start < end returns a draft item scheduled exactly at
\* end and a scheduled item scheduled exactly at start
C16_Witness ==
  /\ AsksCalendar(last)
  /\ DOMAIN last.input = {"user_id", "start_date", "end_date"}
  /\ last.input.start_date < last.input.end_date
  /\ Len(last.returned) = 2
  /\ \E j, k \in 1 .. 2 :
       /\ last.returned[j].status = "draft"
       /\ last.returned[j].scheduled_at = Some(last.input.end_date)
       /\ last.returned[k].status = "scheduled"
       /\ last.returned[k].scheduled_at = Some(last.input.start_date)

AsksTemplates(r) == r.op = "getWorkflowTemplates"

\* the listed template carries exactly the steps persisted for it
CarriesOwnSteps(listed) ==
  LET own == {i \in 1 .. Len(workflowStepsTable) :
                workflowStepsTable[i].workflow_template_id = listed.id}
  IN  /\ Len(listed.steps) = Cardinality(own)
      /\ \A i \in own : \E j \in 1 .. Len(listed.steps) :
           /\ listed.steps[j].step_order = workflowStepsTable[i].step_order
           /\ listed.steps[j].step_type = workflowStepsTable[i].step_type
           /\ listed.steps[j].required = workflowStepsTable[i].required
           /\ listed.steps[j].assignee_id = workflowStepsTable[i].assignee_id

InStepOrder(steps) ==
  \A j \in 1 .. Len(steps) - 1 : steps[j].step_order <= steps[j + 1].step_order

\* C17: getWorkflowTemplates(u) returns exactly the templates owned by u (an empty
\* list when there are none), each carrying exactly the steps persisted for that
\* template, none of another template, listed in step_order order, and an empty step
\* list for a template without steps; getWorkflowTemplateById returns null for an id
\* that references no template.
C17_TemplatesWithOrderedSteps ==
  /\ AsksTemplates(last) =>
       /\ last.result = Ok
       /\ ReturnedIds(last) =
            {t \in 1 .. Len(workflowTemplatesTable) :
               workflowTemplatesTable[t].user_id = last.input.userId}
       /\ Len(last.returned) = Cardinality(ReturnedIds(last))
       /\ \A k \in 1 .. Len(last.returned) :
            /\ CarriesOwnSteps(last.returned[k])
            /\ InStepOrder(last.returned[k].steps)
  /\ (last.op = "getWorkflowTemplateById"
        /\ last.id \notin 1 .. Len(workflowTemplatesTable)) =>
       last.returned = <<>>

Creates(r) == r.op \in {"createContent", "generateContent"}

\* C18: every content item created by createContent or generateContent starts with
\* status=draft and approved_at, approved_by and rejected_reason null, whatever the
\* input (an input scheduled_at is stored while the status stays draft); when the
\* given user_id references no existing user the call fails and no content record is
\* created.
C18_CreatedAsDraft ==
  Creates(last) =>
    IF last.input.user_id \in usersTable
    THEN /\ last.result = Ok
         /\ Len(contentTable) = Len(last.before.content) + 1
         /\ last.id = Len(contentTable)
         /\ Row.status = "draft"
         /\ Row.approved_at = <<>>
         /\ Row.approved_by = <<>>
         /\ Row.rejected_reason = <<>>
         /\ Row.scheduled_at =
              IF last.op = "createContent" /\ "scheduled_at" \in DOMAIN last.input
              THEN last.input.scheduled_at ELSE <<>>
         /\ SubSeq(contentTable, 1, Len(last.before.content)) = last.before.content
    ELSE /\ last.result # Ok
         /\ ContentUntouched

\* createContent was given a scheduled_at: the date is stored and the item is a draft
C18_Witness ==
  /\ last.op = "createContent" /\ last.result = Ok
  /\ "scheduled_at" \in DOMAIN last.input
  /\ last.input.scheduled_at # Null
  /\ Row.scheduled_at = last.input.scheduled_at
  /\ Row.status = "draft"

\* C19: in every state reachable by createContent, generateContent, updateContent,
\* approveContent, scheduleContent and unscheduleContent calls, each content item's
\* approved_at and approved_by are set together: both null or both non-null.
C19_ApprovalFieldsTogether ==
  \A c \in 1 .. Len(contentTable) :
    (contentTable[c].approved_at = <<>>) <=> (contentTable[c].approved_by = <<>>)

\* updateContent moved an approved item to another status: it still carries both
\* approval fields
C19_Witness ==
  /\ last.op = "updateContent" /\ Found(last) /\ last.result = Ok
  /\ RowBefore(last).status = "approved"
  /\ Row.status = "draft"
  /\ Row.approved_at # Null
  /\ Row.approved_by # Null

\* C20 (as stated): in every state reachable by createContent, generateContent,
\* updateContent, approveContent, scheduleContent and unscheduleContent calls, a
\* content item has non-null approved_at or approved_by only when its status is
\* approved.
C20_ApprovalFieldsOnlyWhenApproved ==
  \A c \in 1 .. Len(contentTable) :
    (contentTable[c].approved_at # <<>> \/ contentTable[c].approved_by # <<>>) =>
      contentTable[c].status = "approved"

\* C20 (amended): in every state reachable by createContent, generateContent,
\* approveContent, scheduleContent and unscheduleContent calls (no updateContent), a
\* content item has non-null approved_at or approved_by only when its status is
\* approved or scheduled.
C20_ApprovalFieldsOnlyWhenApprovedOrScheduled ==
  \A c \in 1 .. Len(contentTable) :
    (contentTable[c].approved_at # <<>> \/ contentTable[c].approved_by # <<>>) =>
      contentTable[c].status \in {"approved", "scheduled"}

\* an approved item has been scheduled and keeps its approval fields
C20_Witness ==
  /\ Schedules(last) /\ Found(last) /\ last.result = Ok
  /\ Row.status = "scheduled"
  /\ Row.approved_at # Null
  /\ Row.approved_by # Null

\* the rule "rejected_reason is set only when status=rejected", of one item
ReasonOnlyWhenRejected(content) ==
  content.rejected_reason # <<>> => content.status = "rejected"

\* the latest request left the rule true of every item it created and of every item
\* of which it found the rule true
Preserved(Rule(_)) ==
  \A c \in 1 .. Len(contentTable) :
    (c \in DOMAIN last.before.content => Rule(last.before.content[c])) =>
      Rule(contentTable[c])

\* C21 (as stated): in every state reachable by createContent, generateContent,
\* updateContent, approveContent, scheduleContent and unscheduleContent calls, a
\* content item has a non-null rejected_reason only when its status is rejected.
C21_ReasonOnlyWhenRejected ==
  \A c \in 1 .. Len(contentTable) : ReasonOnlyWhenRejected(contentTable[c])

\* C21 (amended): createContent, generateContent, approveContent, scheduleContent and
\* unscheduleContent keep the rule "non-null rejected_reason only when status is
\* rejected": each leaves it true of every item it creates and of every item of which
\* it found it true, so it holds in every state reachable without updateContent;
\* only updateContent can break it.
C21_ReasonOnlyWhenRejectedButForUpdate ==
  last.op # "updateContent" => Preserved(ReasonOnlyWhenRejected)

\* a rejected item, reason set, has been approved: the reason is cleared
C21_Witness ==
  /\ Approves(last) /\ Found(last) /\ last.result = Ok
  /\ RowBefore(last).status = "rejected"
  /\ RowBefore(last).rejected_reason # Null
  /\ Row.rejected_reason = Null
  /\ Row.status = "approved"

\* C22: in every state reachable by createContent, generateContent, updateContent,
\* approveContent, scheduleContent and unscheduleContent calls, a content item has a
\* non-null scheduled_at only when its status is scheduled or approved.
C22_DateOnlyWhenScheduledOrApproved ==
  \A c \in 1 .. Len(contentTable) :
    contentTable[c].scheduled_at # <<>> =>
      contentTable[c].status \in {"scheduled", "approved"}

HasApproval(content) == content.approved_by # <<>> \/ content.approved_at # <<>>

\* the rule "approval fields and rejected_reason are never populated together"
NotBothOutcomes(content) == ~(HasApproval(content) /\ content.rejected_reason # <<>>)

\* C23 (as stated): in every state reachable by createContent, generateContent,
\* updateContent, approveContent, scheduleContent and unscheduleContent calls, no
\* content item has both its approval fields and its rejected_reason populated:
\* populating one always clears the other.
C23_NotBothOutcomes ==
  \A c \in 1 .. Len(contentTable) : NotBothOutcomes(contentTable[c])

\* C23 (amended): approveContent populates one of {approval fields, rejected_reason}
\* and clears the other, and createContent, generateContent, scheduleContent and
\* unscheduleContent never populate either, so no item has both populated in any
\* state reachable without updateContent; only updateContent, which can write
\* rejected_reason on an item that carries approval fields, can populate both.
C23_NotBothOutcomesButForUpdate ==
  /\ last.op # "updateContent" => Preserved(NotBothOutcomes)
  /\ (last.op = "approveContent" /\ Found(last) /\ last.result = Ok) =>
       /\ NotBothOutcomes(Row)
       /\ HasApproval(Row) <=> last.input.approved
       /\ Row.rejected_reason # <<>> <=> ~last.input.approved

\* an item that carried approval fields has been rejected: the reason is populated
\* and the approval fields are cleared
C23_Witness ==
  /\ Rejects(last) /\ Found(last) /\ last.result = Ok
  /\ RowBefore(last).approved_by # Null
  /\ RowBefore(last).rejected_reason = Null
  /\ Row.rejected_reason # Null
  /\ ~HasApproval(Row)

EditsStatus(r) == r.op = "updateContent" /\ "status" \in DOMAIN r.input

\* C24: updateContent enforces no cross-field rule: it sets status to any of the six
\* status values from any current status and leaves approved_by and approved_at
\* exactly as stored (status=approved through updateContent does not populate them,
\* moving away from approved does not clear them).
C24_StatusEditKeepsApproval ==
  (EditsStatus(last) /\ Found(last)) =>
    /\ last.result = Ok
    /\ Row.status = last.input.status
    /\ Row.approved_by = RowBefore(last).approved_by
    /\ Row.approved_at = RowBefore(last).approved_at

\* an item approved by approveContent was moved to published by updateContent and
\* keeps its approver
C24_Witness ==
  /\ EditsStatus(last) /\ Found(last) /\ last.result = Ok
  /\ RowBefore(last).status = "approved"
  /\ RowBefore(last).approved_by # Null
  /\ last.input.status = "published"
  /\ Row.status = "published"
  /\ Row.approved_by = RowBefore(last).approved_by

\* a draft was moved to approved by updateContent and has no approver
C24_WitnessNoApprover ==
  /\ EditsStatus(last) /\ Found(last) /\ last.result = Ok
  /\ RowBefore(last).status = "draft"
  /\ Row.status = "approved"
  /\ Row.approved_by = Null
  /\ Row.approved_at = Null

ApprovedShape(content) ==
  /\ content.approved_by # <<>>
  /\ content.approved_at # <<>>
  /\ content.rejected_reason = <<>>

RejectedShape(content) ==
  /\ content.rejected_reason # <<>>
  /\ content.approved_by = <<>>
  /\ content.approved_at = <<>>

\* C28: in every state reached without updateContent, an item whose status is approved
\* or scheduled has non-null approved_by and approved_at and a null rejected_reason,
\* and an item whose status is rejected has a non-null rejected_reason and null
\* approved_by and approved_at.
C28_StatusDeterminesOutcomeFields ==
  \A c \in 1 .. Len(contentTable) :
    /\ contentTable[c].status \in {"approved", "scheduled"} => ApprovedShape(contentTable[c])
    /\ contentTable[c].status = "rejected" => RejectedShape(contentTable[c])

\* an approved item was scheduled: it carries the approver, the approval time and no reason
C28_Witness ==
  /\ Schedules(last) /\ Found(last) /\ last.result = Ok
  /\ Row.status = "scheduled"
  /\ ApprovedShape(Row)
  /\ RowBefore(last).status = "approved"

\* an approved item was rejected: it carries the reason and no approver
C28_WitnessRejected ==
  /\ Rejects(last) /\ Found(last) /\ last.result = Ok
  /\ RowBefore(last).status = "approved"
  /\ Row.status = "rejected"
  /\ RejectedShape(Row)

RefreshesUpdatedAt(r) ==
  r.op \in {"approveContent", "updateContent", "scheduleContent", "unscheduleContent"}

\* a successful call wrote updated_at with a clock value read during the call
UpdatedAtSetToCurrentTime ==
  (RefreshesUpdatedAt(last) /\ Found(last) /\ last.result = Ok) =>
    Row.updated_at \in last.at .. now

\* a failed call left updated_at as stored
UpdatedAtKeptOnFailure ==
  (RefreshesUpdatedAt(last) /\ Found(last) /\ last.id \in DOMAIN last.before.content
     /\ last.result # Ok) =>
    Row.updated_at = RowBefore(last).updated_at

UpdatedAtNeverDecreases ==
  \A c \in DOMAIN last.before.content :
    contentTable[c].updated_at >= last.before.content[c].updated_at

UpdatedAtNotBeforeApprovedAt ==
  \A c \in 1 .. Len(contentTable) :
    contentTable[c].approved_at # <<>> =>
      contentTable[c].updated_at >= contentTable[c].approved_at[1]

\* C26: every successful approveContent, updateContent, scheduleContent and
\* unscheduleContent call sets the item's updated_at to the current time and every
\* failed call leaves it unchanged; updated_at never decreases and is never earlier
\* than the item's approved_at.
C26_UpdatedAtFollowsClock ==
  /\ UpdatedAtSetToCurrentTime
  /\ UpdatedAtKeptOnFailure
  /\ UpdatedAtNeverDecreases
  /\ UpdatedAtNotBeforeApprovedAt

Decides(r) == r.op = "approveContent" /\ Found(r) /\ r.result = Ok

InstanceProgressed(before, after) ==
  \/ after.current_step_id # before.current_step_id
  \/ after.status \in {"completed", "cancelled"}

\* C27: when approveContent approves or rejects an item that has an in_progress
\* workflow instance, that instance's progress is updated as part of the operation:
\* its current_step_id advances or its status becomes completed or cancelled.
C27_DecisionAdvancesInstance ==
  Decides(last) =>
    \A i \in DOMAIN last.before.instances :
      (last.before.instances[i].content_id = last.id
         /\ last.before.instances[i].status = "in_progress") =>
        /\ i \in DOMAIN contentWorkflowInstancesTable
        /\ InstanceProgressed(last.before.instances[i], contentWorkflowInstancesTable[i])

StatusOf(content) == content.status

\* C30: once approveContent has succeeded on an item, the item is in no user's
\* getPendingApprovals result until updateContent sets its status back to
\* pending_approval: the query returns only items whose status is pending_approval,
\* a successful approveContent leaves the status approved or rejected, and no
\* operation other than updateContent with status pending_approval (in particular
\* neither scheduleContent nor unscheduleContent) turns an item into a pending one.
C30_DecidedItemsStayOutOfPending ==
  /\ AsksPending(last) =>
       \A id \in ReturnedIds(last) : StatusOf(contentTable[id]) = "pending_approval"
  /\ Decides(last) => StatusOf(Row) \in {"approved", "rejected"}
  /\ \A c \in DOMAIN last.before.content :
       (StatusOf(last.before.content[c]) # "pending_approval"
          /\ StatusOf(contentTable[c]) = "pending_approval") =>
         /\ last.op = "updateContent"
         /\ last.id = c
         /\ last.input.status = "pending_approval"

\* user 1 asks for pending approvals after item 1 was approved and scheduled: the
\* item's instance still waits at user 1's approval step, and nothing is returned
C30_Witness ==
  /\ AsksPending(last) /\ last.input.userId = 1
  /\ contentTable[1].status = "scheduled"
  /\ contentTable[1].approved_by # <<>>
  /\ HasQualifyingInstance(1, 1)
  /\ last.returned = <<>>

ReadsTemplate(r) == r.op = "getWorkflowTemplateById" /\ r.id \in DOMAIN r.before.templates

\* C25: once createWorkflowTemplate has persisted a template and its steps, no
\* operation (the six content operations, a later createWorkflowTemplate, or a query)
\* modifies or deletes that template's step records: every step row stays as it was,
\* every earlier template keeps exactly its step rows, and getWorkflowTemplateById
\* reads back those rows.
C25_StepsNeverChange ==
  /\ \A i \in DOMAIN last.before.steps :
       /\ i \in DOMAIN workflowStepsTable
       /\ workflowStepsTable[i] = last.before.steps[i]
  /\ \A t \in DOMAIN last.before.templates : StepsOf(t) = StepsBefore(last, t)
  /\ ReadsTemplate(last) =>
       last.returned.steps =
         [j \in 1 .. Len(StepsOf(last.id)) |-> FormattedStep(StepsOf(last.id)[j])]

\* a second template was created with its steps, and the first template's steps are
\* the rows it had before
C25_Witness ==
  /\ CreatesTemplate(last) /\ last.result = Ok
  /\ last.id = 2
  /\ StepsBefore(last, 1) # <<>>
  /\ StepsOf(1) = StepsBefore(last, 1)
  /\ StepsOf(2) # <<>>

\* template 1 is read back after a content item was approved: its steps are the rows
\* createWorkflowTemplate wrote
C25_WitnessReadBack ==
  /\ ReadsTemplate(last) /\ last.id = 1
  /\ Len(last.returned.steps) = 2
  /\ Len(contentTable) = 1
  /\ contentTable[1].status = "approved"
  /\ Len(workflowTemplatesTable) = 2

ScheduledWithoutApproval(content) ==
  /\ content.status = "scheduled"
  /\ content.rejected_reason # <<>>
  /\ content.approved_by = <<>>

\* C29: when the select and the update of concurrent requests on one item interleave,
\* scheduleContent still writes status scheduled only over an item that is approved at
\* the moment of the write, unscheduleContent writes only over an item that is
\* scheduled at that moment, and no item ends up scheduled with a rejected_reason and
\* no approver.
C29_WritesSeeCurrentStatus ==
  /\ (Schedules(last) /\ Found(last) /\ last.result = Ok) =>
       RowBefore(last).status = "approved"
  /\ (last.op = "unscheduleContent" /\ Found(last) /\ last.result = Ok) =>
       RowBefore(last).status = "scheduled"
  /\ \A c \in 1 .. Len(contentTable) : ~ScheduledWithoutApproval(contentTable[c])

====
